---- MODULE Spec2Model ----
(***************************************************************************)
(* Model of prompt2model's DescriptionModelRetriever                        *)
(* (src/prompt2model/model_retriever/description_based_retriever.py):       *)
(* the catalog loader, the constructor's index-path validation, the score   *)
(* rescaler and the retrieve() ranking pass.                                *)
(*                                                                          *)
(* Strings that the code inspects with startswith() are sequences of        *)
(* tokens (<<"huggingtweets", "/", "x">> is "huggingtweets/x"), so that a   *)
(* prefix test is a test on SubSeq.  Floating point scores are fixed point  *)
(* numbers in thousandths; None, -inf and a number are tagged pairs.        *)
(***************************************************************************)
EXTENDS Integers, Sequences, FiniteSets, TLC

VARIABLES
    directory,          \* os.listdir(model_descriptions_index_path), with each file's content
    index_dir,          \* ids held by the BM25 index persisted at the retriv path ({} = no index)
    path_state,         \* what exists at the explicit search_index_path: "absent", "file", "dir"
    phase,              \* "new" (before __init__), "ready", "config_error" (__init__ raised)
    cfg,                \* the constructor's arguments
    model_infos,        \* self.model_infos
    search_index_attr,  \* self._search_index_path: Unset (attribute never assigned) or a path
    ranked_list,        \* retrieve(): the first-stage result of the latest call
    top_models_list,    \* retrieve(): the list built by the rescoring loop (indices into model_infos)
    outcome             \* what the latest retrieve() call returned or raised

vars == <<directory, index_dir, path_state, phase, cfg, model_infos,
          search_index_attr, ranked_list, top_models_list, outcome>>

----------------------------------------------------------------------------
(* Bounds *)

MaxFiles == 3        \* files in the catalog directory
MaxDepth == 2        \* search_depth ranges over 0..MaxDepth
FirstStageDepth == 3 \* first_stage_depth handed to the first-stage retriever

----------------------------------------------------------------------------
(* Values *)

NoPath == <<"None">>
ExplicitPath == <<"index.npy">>
Unset == <<"unset">>
RetrivIndexPath(bm25_index_name) == <<"retriv", bm25_index_name>>

ScoreNone == <<"None", 0>>
NegInf == <<"-inf", 0>>
Num(v) == <<"num", v>>

\* a > b on scores as Python compares floats (None is never compared)
ScoreGt(a, b) ==
    /\ a[1] = "num"
    /\ \/ b[1] = "-inf"
       \/ b[1] = "num" /\ a[2] > b[2]

Min(a, b) == IF a < b THEN a ELSE b

StartsWith(s, p) == Len(p) <= Len(s) /\ SubSeq(s, 1, Len(p)) = p

\* model_dict.get(key, default)
Get(d, key, default) == IF key \in DOMAIN d THEN d[key] ELSE default

\* lst[:n] for n >= 0
Take(lst, n) == SubSeq(lst, 1, Min(n, Len(lst)))

model_blocklist_organizations == << <<"huggingtweets">> >>

\* the values model_size_limit_bytes is constructed with
SizeLimits == {50, 100}

RawScores == {2, 5}

----------------------------------------------------------------------------
(* Files of the catalog directory *)

File(f, len, json) == [f |-> f, len |-> len, json |-> json]

FA == File(<<"a.json">>, 1,
        [pretrained_model_name |-> <<"A">>, description |-> "dA",
         size_bytes |-> 100, downloads |-> 1000])
FB == File(<<"b.json">>, 1,
        [pretrained_model_name |-> <<"B">>, description |-> "dB",
         size_bytes |-> 100, downloads |-> 1000])
FC == File(<<"c.json">>, 1,
        [pretrained_model_name |-> <<"A">>, description |-> "dC",
         size_bytes |-> 500, downloads |-> 0])
FNoDownloads == File(<<"d.json">>, 1,
        [pretrained_model_name |-> <<"D">>, description |-> "dD",
         size_bytes |-> 500])
FHidden == File(<<".", "h.json">>, 1,
        [pretrained_model_name |-> <<"H">>, description |-> "dH",
         size_bytes |-> 100, downloads |-> 8])
FEmpty == File(<<"e.json">>, 0, <<>>)
FNoSize == File(<<"n.json">>, 1,
        [pretrained_model_name |-> <<"N">>, description |-> "dN", downloads |-> 8])
FZeroSize == File(<<"z.json">>, 1,
        [pretrained_model_name |-> <<"Z">>, description |-> "dZ",
         size_bytes |-> 0, downloads |-> 8])
FNoDescription == File(<<"u.json">>, 1,
        [pretrained_model_name |-> <<"U">>, size_bytes |-> 100, downloads |-> 8])
FTweets == File(<<"huggingtweets--x.json">>, 1,
        [pretrained_model_name |-> <<"huggingtweets", "/", "x">>, description |-> "dT",
         size_bytes |-> 100, downloads |-> 8])

RetrievalPool == {FA, FB, FC}
LoaderPool == RetrievalPool \cup
    {FNoDownloads, FHidden, FEmpty, FNoSize, FZeroSize, FNoDescription, FTweets}

\* the sequences of at most n elements of S without repetition
InjSeqs(S, n) ==
    UNION { { s \in [1..k -> S] : \A i, j \in 1..k : i # j => s[i] # s[j] } : k \in 0..n }

\* a directory listing: at most MaxFiles files, no two with the same file name
Listings(pool) ==
    { d \in InjSeqs(pool, MaxFiles) :
        \A i, j \in 1..Len(d) : i # j => d[i].f # d[j].f }

----------------------------------------------------------------------------
(* ModelInfo and load_model_info *)

ModelInfo(name, description, score, size_in_bytes, num_downloads) ==
    [name |-> name, description |-> description, score |-> score,
     size_in_bytes |-> size_in_bytes, num_downloads |-> num_downloads]

\* block = any(f.startswith(f"{org}/") for org in self.model_blocklist_organizations)
Blocked(f) ==
    \E k \in 1..Len(model_blocklist_organizations) :
        StartsWith(f, model_blocklist_organizations[k] \o <<"/">>)

\* the file survives every `continue` of the loop
Loaded(file) ==
    /\ ~(StartsWith(file.f, <<".">>) \/ file.len = 0)
    /\ ~Blocked(file.f)
    /\ Get(file.json, "size_bytes", 0) # 0
    /\ "description" \in DOMAIN file.json

load_model_info(description_files) ==
    LET kept == SelectSeq(description_files, Loaded)
    IN  [i \in 1..Len(kept) |->
            ModelInfo(kept[i].json["pretrained_model_name"],
                      kept[i].json["description"],
                      ScoreNone,
                      kept[i].json["size_bytes"],
                      Get(kept[i].json, "downloads", 0))]

----------------------------------------------------------------------------
(* __init__: the index path *)

\* InitSearchIndexPath without the check of lines 104-108
InitSearchIndexPath_NoCheck(use_bm25, search_index_path, bm25_index_name, isdir) ==
    IF use_bm25
    THEN [error |-> FALSE, attr |-> RetrivIndexPath(bm25_index_name)]
    ELSE IF search_index_path # NoPath
         THEN IF isdir
              THEN [error |-> TRUE, attr |-> Unset]
              ELSE [error |-> FALSE, attr |-> search_index_path]
         ELSE [error |-> FALSE, attr |-> Unset]

\* the part of __init__ after load_model_info: [error, attr]
InitSearchIndexPath(use_bm25, search_index_path, bm25_index_name, isdir) ==
    IF use_bm25
    THEN IF search_index_path # NoPath
         THEN [error |-> TRUE, attr |-> Unset]
         ELSE [error |-> FALSE, attr |-> RetrivIndexPath(bm25_index_name)]
    ELSE IF search_index_path # NoPath
         THEN IF isdir
              THEN [error |-> TRUE, attr |-> Unset]
              ELSE [error |-> FALSE, attr |-> search_index_path]
         ELSE [error |-> FALSE, attr |-> Unset]

NoOutcome == [status |-> "none", names |-> <<>>]

Construct ==
    /\ phase = "new"
    /\ \E use_bm25 \in BOOLEAN, search_index_path \in {NoPath, ExplicitPath},
          search_depth \in 0..MaxDepth, model_size_limit_bytes \in SizeLimits :
        LET r == InitSearchIndexPath(use_bm25, search_index_path, "model-index",
                                     path_state = "dir")
        IN  /\ cfg' = [use_bm25 |-> use_bm25,
                       search_index_path |-> search_index_path,
                       search_depth |-> search_depth,
                       first_stage_depth |-> FirstStageDepth,
                       model_size_limit_bytes |-> model_size_limit_bytes,
                       bm25_index_name |-> "model-index"]
            /\ model_infos' = load_model_info(directory)
            /\ search_index_attr' = r.attr
            /\ phase' = IF r.error THEN "config_error" ELSE "ready"
    /\ UNCHANGED <<directory, index_dir, path_state, ranked_list, top_models_list, outcome>>

----------------------------------------------------------------------------
(* scale_similarity_score *)

\* np.log10(x) in thousandths, for the download counts of the catalog files
Log10(x) ==
    CASE x = 2    -> 301
      [] x = 10   -> 1000
      [] x = 1002 -> 3001

scale_similarity_score(model_info, model_score, size_limit) ==
    LET num_downloads == model_info.num_downloads
        log_num_downloads == Log10(num_downloads + 2)
        model_size_bytes == model_info.size_in_bytes
    IN  IF model_size_bytes > size_limit
        THEN NegInf
        ELSE Num(model_score * log_num_downloads)

----------------------------------------------------------------------------
(* retrieve: the rescoring loop *)

\* Lookup with the first model_info of a name winning
Lookup_First(infos, model_name) ==
    LET hits == { i \in 1..Len(infos) : infos[i].name = model_name }
    IN  IF hits = {} THEN 0 ELSE CHOOSE i \in hits : \A j \in hits : i <= j

\* model_name_to_model_info[model_name]: in a dict comprehension the last
\* model_info of a name wins; 0 stands for the KeyError of a missing name
Lookup(infos, model_name) ==
    LET hits == { i \in 1..Len(infos) : infos[i].name = model_name }
    IN  IF hits = {} THEN 0 ELSE CHOOSE i \in hits : \A j \in hits : j <= i

\* RescoreLoop with a missing name skipped (dict.get and continue) instead of raised
RECURSIVE RescoreLoop_SkipMissing(_, _, _, _, _)
RescoreLoop_SkipMissing(infos, top, ranked, k, size_limit) ==
    IF k > Len(ranked)
    THEN [infos |-> infos, top |-> top, error |-> FALSE]
    ELSE LET model_name == ranked[k][1]
             model_score == ranked[k][2]
             i == Lookup(infos, model_name)
         IN  IF i = 0
             THEN RescoreLoop_SkipMissing(infos, top, ranked, k + 1, size_limit)
             ELSE RescoreLoop_SkipMissing(
                    [infos EXCEPT ![i].score =
                        scale_similarity_score(infos[i], model_score, size_limit)],
                    Append(top, i), ranked, k + 1, size_limit)

\* the loop over ranked_list from its k-th pair on; it stops at a KeyError
RECURSIVE RescoreLoop(_, _, _, _, _)
RescoreLoop(infos, top, ranked, k, size_limit) ==
    IF k > Len(ranked)
    THEN [infos |-> infos, top |-> top, error |-> FALSE]
    ELSE LET model_name == ranked[k][1]
             model_score == ranked[k][2]
             i == Lookup(infos, model_name)
         IN  IF i = 0
             THEN [infos |-> infos, top |-> top, error |-> TRUE]
             ELSE RescoreLoop(
                    [infos EXCEPT ![i].score =
                        scale_similarity_score(infos[i], model_score, size_limit)],
                    Append(top, i), ranked, k + 1, size_limit)

----------------------------------------------------------------------------
(* retrieve: sorted(..., reverse=True)[:search_depth] *)

\* the positions 1..n of keys in descending order of key, equal keys in
\* their original order (Python's sort is stable, also with reverse=True)
RECURSIVE SortedDesc(_, _)
SortedDesc(keys, n) ==
    IF n = 0
    THEN <<>>
    ELSE LET s == SortedDesc(keys, n - 1)
             pos == Cardinality({ i \in 1..Len(s) : ~ScoreGt(keys[n], keys[s[i]]) })
         IN  SubSeq(s, 1, pos) \o <<n>> \o SubSeq(s, pos + 1, Len(s))

\* the sorted and truncated top_models_list (indices into infos)
TopModels(infos, top, search_depth) ==
    LET keys == [k \in 1..Len(top) |-> infos[top[k]].score]
        order == SortedDesc(keys, Len(top))
    IN  Take([k \in 1..Len(top) |-> top[order[k]]], search_depth)

\* Finish without the empty check of lines 282-283
Finish_ReturnsEmpty(infos, top_models) ==
    [status |-> "ok", names |-> [k \in 1..Len(top_models) |-> infos[top_models[k]].name]]

\* the end of retrieve: the empty check and the returned names
Finish(infos, top_models) ==
    IF Len(top_models) = 0
    THEN [status |-> "ValueError", names |-> <<>>]
    ELSE [status |-> "ok", names |-> [k \in 1..Len(top_models) |-> infos[top_models[k]].name]]

----------------------------------------------------------------------------
(* The first-stage retrievers: retriv's BM25 search and utils.retrieve_objects *)

\* raw scores of a ranked list of length n: descending
ScoreSeqs(n) ==
    { sc \in [1..n -> RawScores] : \A k \in 1..n : k < n => sc[k] >= sc[k + 1] }

\* search_engine.search(query_text, cutoff): up to cutoff ids of the index, each once
Search(ids, cutoff) ==
    UNION { { [k \in 1..Len(p) |-> <<p[k], sc[k]>>] : sc \in ScoreSeqs(Len(p)) } :
            p \in InjSeqs(ids, cutoff) }

\* retrieve_objects(query_vector, path, model_names, depth): up to depth rows of
\* the matrix, each once, named by position in model_names
retrieve_objects(model_names, depth) ==
    UNION { { [k \in 1..Len(p) |-> <<model_names[p[k]], sc[k]>>] : sc \in ScoreSeqs(Len(p)) } :
            p \in InjSeqs(1..Len(model_names), depth) }

\* construct_bm25_index: a non-empty persisted index is loaded as it is,
\* otherwise one is built over the catalog and persisted
construct_bm25_index(infos, persisted) ==
    IF persisted # {}
    THEN persisted
    ELSE { infos[i].name : i \in 1..Len(infos) }

----------------------------------------------------------------------------
(* retrieve *)

\* lines 236-241: the matrix is encoded and persisted when the path holds nothing
EnsureMatrix(use_bm25, exists) ==
    IF ~use_bm25 /\ exists = "absent" THEN "file" ELSE exists

\* The query text (lines 243-246, use_HyDE) only decides which ranked list the
\* first stage returns; Retrieve draws that list from every list it can return.

\* lines 268-284, for the first-stage result `ranked`
Rank(infos, ranked, search_depth, size_limit) ==
    LET r == RescoreLoop(infos, <<>>, ranked, 1, size_limit)
    IN  [infos |-> r.infos,
         top |-> r.top,
         outcome |-> IF r.error
                     THEN [status |-> "KeyError", names |-> <<>>]
                     ELSE Finish(r.infos, TopModels(r.infos, r.top, search_depth))]

Retrieve ==
    /\ phase = "ready"
    /\ IF ~cfg.use_bm25 /\ search_index_attr = Unset
       THEN \* line 238 reads an attribute __init__ never assigned
            /\ outcome' = [status |-> "AttributeError", names |-> <<>>]
            /\ ranked_list' = <<>>
            /\ top_models_list' = <<>>
            /\ UNCHANGED <<index_dir, path_state, model_infos>>
       ELSE LET index == IF cfg.use_bm25
                         THEN construct_bm25_index(model_infos, index_dir)
                         ELSE index_dir
                model_names == [i \in 1..Len(model_infos) |-> model_infos[i].name]
            IN  /\ path_state' = EnsureMatrix(cfg.use_bm25, path_state)
                /\ index_dir' = index
                /\ \E ranked \in (IF cfg.use_bm25
                                  THEN Search(index, cfg.first_stage_depth)
                                  ELSE retrieve_objects(model_names, cfg.first_stage_depth)) :
                    LET r == Rank(model_infos, ranked, cfg.search_depth,
                                  cfg.model_size_limit_bytes)
                    IN  /\ ranked_list' = ranked
                        /\ model_infos' = r.infos
                        /\ top_models_list' = r.top
                        /\ outcome' = r.outcome
    /\ UNCHANGED <<directory, phase, cfg, search_index_attr>>

----------------------------------------------------------------------------
(* Specifications *)

\* an index left at the retriv path by an earlier catalog
StaleIndex == { <<"A">>, <<"O">> }

InitWith(pool) ==
    /\ directory \in Listings(pool)
    /\ index_dir \in {{}, StaleIndex}
    /\ path_state \in {"absent", "file", "dir"}
    /\ phase = "new"
    /\ cfg = <<>>
    /\ model_infos = <<>>
    /\ search_index_attr = Unset
    /\ ranked_list = <<>>
    /\ top_models_list = <<>>
    /\ outcome = NoOutcome

Init == InitWith(RetrievalPool)

Next == Construct \/ Retrieve

Spec == Init /\ [][Next]_vars

\* the loader alone, over directories that hold every kind of file
InitLoad == InitWith(LoaderPool)

NextLoad == Construct

SpecLoad == InitLoad /\ [][NextLoad]_vars

----------------------------------------------------------------------------
(* Vocabulary of the properties *)

Called == phase = "ready" /\ outcome.status # "none"

\* the latest call got as far as the rescoring loop
Ranked == Called /\ outcome.status # "AttributeError"

Candidates == 1..Len(ranked_list)
CandName(j) == ranked_list[j][1]
CandRaw(j) == ranked_list[j][2]

InCatalog(name) == \E i \in 1..Len(model_infos) : model_infos[i].name = name

\* record i is the one a candidate name resolves to: the last of that name
Resolves(name, i) ==
    /\ i \in 1..Len(model_infos)
    /\ model_infos[i].name = name
    /\ \A i2 \in 1..Len(model_infos) : model_infos[i2].name = name => i2 <= i

Oversized(i) == model_infos[i].size_in_bytes > cfg.model_size_limit_bytes

CandOversized(j) == \E i \in 1..Len(model_infos) : Resolves(CandName(j), i) /\ Oversized(i)

\* the adjusted score of candidate j, by the spec's formula
Adjusted(j) ==
    LET i == CHOOSE i \in 1..Len(model_infos) : Resolves(CandName(j), i)
    IN  IF Oversized(i)
        THEN NegInf
        ELSE Num(CandRaw(j) * Log10(model_infos[i].num_downloads + 2))

OutputNames == { outcome.names[k] : k \in 1..Len(outcome.names) }

\* the place of candidate j when the candidates are put in descending order of
\* adjusted score, candidates of equal score in first-stage order
Place(j) ==
    1 + Cardinality({ m \in Candidates :
                        \/ ScoreGt(Adjusted(m), Adjusted(j))
                        \/ Adjusted(m) = Adjusted(j) /\ m < j })

----------------------------------------------------------------------------
(* C1, C2, C3: the ranking *)

\* C1: a candidate whose record has size_in_bytes > model_size_limit_bytes gets
\* the score -inf, and is not in the returned list when the first stage
\* returned any other candidate.
C1_OversizedNeverSelected ==
    (Ranked /\ outcome.status # "KeyError") =>
        \A j \in Candidates :
            CandOversized(j) =>
                /\ \A i \in 1..Len(model_infos) :
                        Resolves(CandName(j), i) => model_infos[i].score = NegInf
                /\ Len(ranked_list) > 1 => CandName(j) \notin OutputNames

\* C2: when every candidate of the first stage is oversized, retrieve raises
\* the empty-result ValueError and returns no names.
C2_AllOversizedRaises ==
    ( /\ Ranked
      /\ outcome.status # "KeyError"
      /\ Candidates # {}
      /\ \A j \in Candidates : CandOversized(j) )
    => outcome.status = "ValueError"

\* C3: a successful retrieve returns the names of the first
\* min(search_depth, n) of the n candidates, ordered by descending adjusted
\* score with equal scores in first-stage order.
C3_OutputIsSortedPrefix ==
    (phase = "ready" /\ outcome.status = "ok") =>
        /\ Len(outcome.names) = Min(cfg.search_depth, Len(ranked_list))
        /\ Len(outcome.names) <= cfg.search_depth
        /\ \A j \in Candidates :
                Place(j) <= Len(outcome.names) => outcome.names[Place(j)] = CandName(j)

\* C3 restricted to calls whose candidates have pairwise distinct names
C3_DistinctNames ==
    (\A j, m \in Candidates : j # m => CandName(j) # CandName(m))
    => C3_OutputIsSortedPrefix

----------------------------------------------------------------------------
(* C4, C5, C6: the errors *)

C5_SparseRejectsExplicitPath ==
    phase # "new" =>
        /\ (cfg.use_bm25 /\ cfg.search_index_path # NoPath)
                => phase = "config_error" /\ outcome = NoOutcome
        /\ (cfg.use_bm25 /\ cfg.search_index_path = NoPath)
                => /\ phase = "ready"
                   /\ search_index_attr = <<"retriv", cfg.bm25_index_name>>

\* witness of C5: __init__ raised for the sparse backend with a path
C5_Witness ==
    /\ phase = "config_error"
    /\ cfg.use_bm25
    /\ cfg.search_index_path = ExplicitPath

\* C6: if any candidate name is not in the catalog, retrieve raises KeyError
\* and returns no names, wherever the missing name stands in the list.
C6_MissingNameAborts ==
    (Ranked /\ \E j \in Candidates : ~InCatalog(CandName(j)))
        => outcome = [status |-> "KeyError", names |-> <<>>]

\* witness of C6: the missing name came after candidates that were found
C6_Witness ==
    /\ Ranked
    /\ outcome.status = "KeyError"
    /\ Len(top_models_list) > 0
    /\ \E j \in Candidates : j > 1 /\ ~InCatalog(CandName(j))

----------------------------------------------------------------------------
(* C7, C8: the catalog after load_model_info *)

\* the identifier of a record falls under a blocklisted organization
BlocklistedName(name) ==
    \E k \in 1..Len(model_blocklist_organizations) :
        /\ Len(name) > Len(model_blocklist_organizations[k])
        /\ SubSeq(name, 1, Len(model_blocklist_organizations[k]))
                = model_blocklist_organizations[k]
        /\ name[Len(model_blocklist_organizations[k]) + 1] = "/"

\* the skip rules of the catalog loader, as the spec words them
PassesSkipRules(file) ==
    /\ file.f[1] # "."
    /\ file.len # 0
    /\ "size_bytes" \in DOMAIN file.json
    /\ file.json["size_bytes"] # 0
    /\ "description" \in DOMAIN file.json
    /\ ~BlocklistedName(file.json["pretrained_model_name"])

\* C7: after the load the catalog holds, in directory order, exactly the
\* entries that pass every skip rule: not hidden, not empty, size_bytes
\* present and non-zero, a description, and an identifier under no
\* blocklisted organization.
C7_CatalogIsTheEntriesPassingTheRules ==
    phase # "new" =>
        LET passing == SelectSeq(directory, PassesSkipRules)
        IN  /\ Len(model_infos) = Len(passing)
            /\ \A i \in 1..Len(model_infos) :
                    /\ i <= Len(passing)
                    /\ model_infos[i].name = passing[i].json["pretrained_model_name"]
                    /\ model_infos[i].description = passing[i].json["description"]
                    /\ model_infos[i].size_in_bytes = passing[i].json["size_bytes"]
            /\ \A i \in 1..Len(model_infos) : ~BlocklistedName(model_infos[i].name)

\* C8: after the load no two records of the catalog share a name.
C8_NamesUnique ==
    phase # "new" =>
        \A i, j \in 1..Len(model_infos) :
            i # j => model_infos[i].name # model_infos[j].name

----------------------------------------------------------------------------
(* C9: the life of a score *)

\* the candidates of list rl the loop reaches: those before the first name
\* that is not in the catalog
Reached(rl) ==
    { k \in 1..Len(rl) :
        \A m \in 1..k : \E i \in 1..Len(model_infos) : model_infos[i].name = rl[m][1] }

\* the candidates of list rl the loop reaches that resolve to record i
ReachedFor(rl, i) == { k \in Reached(rl) : Resolves(rl[k][1], i) }

\* the score the spec's formula gives record i for raw score raw
AdjustedFor(i, raw) ==
    IF Oversized(i)
    THEN NegInf
    ELSE Num(raw * Log10(model_infos[i].num_downloads + 2))

\* C9 as stated: after any sequence of calls every record's score is None or
\* the adjusted score the latest call computed for it.
C9_NoScoreOfAnEarlierCall ==
    Called =>
        \A i \in 1..Len(model_infos) :
            \/ model_infos[i].score = ScoreNone
            \/ \E k \in ReachedFor(ranked_list, i) :
                    model_infos[i].score = AdjustedFor(i, CandRaw(k))

\* C9 amended: the load leaves every score None; a call overwrites the score
\* of exactly the records its reached candidates resolve to, with the
\* adjusted score of the last such candidate, and leaves every other score,
\* also one an earlier call assigned, as it was; no call changes the name,
\* description, size, downloads or order of the records.
C9_ScoreOverwrittenOnlyWhenRanked ==
    [][ /\ phase = "new" =>
            \A i \in 1..Len(model_infos') : model_infos'[i].score = ScoreNone
        /\ phase = "ready" =>
            /\ Len(model_infos') = Len(model_infos)
            /\ \A i \in 1..Len(model_infos) :
                LET hits == ReachedFor(ranked_list', i)
                    last == CHOOSE k \in hits : \A m \in hits : m <= k
                IN  /\ model_infos'[i].name = model_infos[i].name
                    /\ model_infos'[i].description = model_infos[i].description
                    /\ model_infos'[i].size_in_bytes = model_infos[i].size_in_bytes
                    /\ model_infos'[i].num_downloads = model_infos[i].num_downloads
                    /\ model_infos'[i].score =
                            IF hits = {}
                            THEN model_infos[i].score
                            ELSE AdjustedFor(i, ranked_list'[last][2])
      ]_vars

\* witness of C9: after a call, a record that is no candidate of that call
\* carries the score of an earlier call
C9_Witness ==
    /\ Ranked
    /\ outcome.status = "ok"
    /\ \E i \in 1..Len(model_infos) :
            /\ model_infos[i].score # ScoreNone
            /\ \A k \in Candidates : CandName(k) # model_infos[i].name

----------------------------------------------------------------------------
(* C10: the dense backend's embedding matrix *)

\* C10: every call on a constructed dense-backend instance, built with or
\* without an explicit index path, leaves the matrix persisted at a defined
\* index path and queries the first stage against it.
C10_DenseCallEnsuresMatrix ==
    (Called /\ ~cfg.use_bm25) =>
        /\ search_index_attr # Unset
        /\ path_state = "file"
        /\ outcome.status # "AttributeError"

====
